---- MODULE Spec2Model ----
(***************************************************************************)
(* Automatic Channel Selection (ACS) engine of hostapd: the survey driven  *)
(* state machine of acs.c.  The interface object (struct hostapd_iface)    *)
(* is the record iface; the radio driver is the record drv; obs records    *)
(* what the last handler did (driver calls, return values) so that the     *)
(* properties can speak about requests and callbacks.                      *)
(*                                                                         *)
(* Every handler of acs.c is an operator from a "world" record             *)
(*   w = [iface |-> ..., drv |-> ..., obs |-> ...]                          *)
(* to the world after the handler returned; the answers of the driver and  *)
(* of the bring-up callback are parameters of the operators, chosen by     *)
(* the actions.  calc is used only where the scoring function or the       *)
(* cleanup is exercised on its own (ScoreSpec, CleanupSpec).               *)
(***************************************************************************)
EXTENDS Integers, Sequences, FiniteSets, TLC

VARIABLES iface, drv, obs, calc

vars == <<iface, drv, obs, calc>>

(***************************************************************************)
(* Bounds and configuration                                                *)
(***************************************************************************)
\* number of entries of current_mode->channels
NumChannels == 2
\* largest conf->acs_num_req_surveys tried
MaxReqSurveys == 2
\* number of acs_init calls in one behaviour
MaxInvocations == 2
\* number of dwell requests the driver accepts in one behaviour
MaxDwells == 4

ChanIdx == 1..NumChannels

\* channel numbers 1, 6, 11, ... and their 2.4 GHz frequencies
ChanNum(i) == 5 * (i - 1) + 1
ChanFreq(i) == 2412 + 25 * (i - 1)

\* survey measurements the driver may report (struct freq_survey); each
\* satisfies tx <= busy <= time, time > tx, busy > tx, and has a busy
\* fraction that is a power of two so that log2 is exact
SurveyA == [channel_time |-> 800, channel_time_busy |-> 100, channel_time_tx |-> 0, nf |-> -94]
SurveyB == [channel_time |-> 1700, channel_time_busy |-> 300, channel_time_tx |-> 100, nf |-> -95]

\* what one survey dump may deposit for a frequency: zero or more surveys
Deposits == {<<>>, <<SurveyA>>, <<SurveyA, SurveyB>>}

\* enum hostapd_chan_status
HOSTAPD_CHAN_VALID == "VALID"
HOSTAPD_CHAN_INVALID == "INVALID"
HOSTAPD_CHAN_ACS == "ACS"

(***************************************************************************)
(* Rationals <<n, d>>, d > 0, in lowest terms: the values of the long      *)
(* double survey_interference_factor                                       *)
(***************************************************************************)
RECURSIVE GCD(_, _)
GCD(a, b) == IF b = 0 THEN a ELSE GCD(b, a % b)

Abs(x) == IF x < 0 THEN -x ELSE x

RNorm(n, d) ==
    LET g == GCD(Abs(n), d)
    IN  <<n \div g, d \div g>>

RZero == <<0, 1>>
RAdd(a, b) == RNorm(a[1] * b[2] + b[1] * a[2], a[2] * b[2])
RDivInt(a, k) == RNorm(a[1], a[2] * k)
RLess(a, b) == a[1] * b[2] < b[1] * a[2]
RInt(k) == <<k, 1>>

(***************************************************************************)
(* Scoring                                                                 *)
(***************************************************************************)
\* u64: an unsigned 64-bit integer as U64Bytes digits of radix U64Radix, the
\* least significant first
U64Bytes == 8
U64Radix == 256

RECURSIVE U64Digits(_, _)
U64Digits(n, k) ==
    IF k = 0 THEN <<>> ELSE <<n % U64Radix>> \o U64Digits(n \div U64Radix, k - 1)

\* the u64 of a small non-negative integer
U64(n) == U64Digits(n, U64Bytes)

RECURSIVE U64MulCol(_, _, _, _)
\* column k of the product: the sum of a[i] * b[k + 1 - i] for i in 1..k
U64MulCol(a, b, k, i) ==
    IF i > k THEN 0 ELSE a[i] * b[k + 1 - i] + U64MulCol(a, b, k, i + 1)

RECURSIVE U64MulFrom(_, _, _, _)
U64MulFrom(a, b, k, carry) ==
    IF k > U64Bytes THEN <<>>
    ELSE LET t == U64MulCol(a, b, k, 1) + carry
         IN  <<t % U64Radix>> \o U64MulFrom(a, b, k + 1, t \div U64Radix)

\* a * b in u64: the product modulo 2^64
U64Mul(a, b) == U64MulFrom(a, b, 1, 0)

U64IsZero(a) == \A k \in 1..U64Bytes : a[k] = 0

\* base_to_power: result = base; pow--; while (pow--) result *= base, with
\* the product taken in u64.  pow is nf - lowest_nf, which is >= 0 because
\* lowest_nf is the minimum of the nf values.
RECURSIVE base_to_power_loop(_, _, _)
\* the loop of base_to_power: pow more rounds of "result *= base" in u64
base_to_power_loop(result, base, pow) ==
    IF pow = 0 THEN result
    ELSE LET product == U64Mul(result, base)
         IN  \* the product is a u64 again; the test also makes TLC compute
             \* it before the next round of the loop
             IF Len(product) = U64Bytes
             THEN base_to_power_loop(product, base, pow - 1)
             ELSE product

base_to_power(base, pow) ==
    IF pow = 0 THEN U64(1) ELSE base_to_power_loop(U64(base), U64(base), pow - 1)

\* log2 of a positive integer that is a power of two
RECURSIVE ILog2(_)
ILog2(n) == IF n <= 1 THEN 0 ELSE 1 + ILog2(n \div 2)

\* log2(num / den) where num / den is a power of two (positive or negative
\* exponent)
log2(num, den) ==
    IF num >= den THEN ILog2(num \div den) ELSE 0 - ILog2(den \div num)

\* log2 of a non-zero u64 that is a power of two: the place of its bit
U64Log2(a) ==
    LET k == CHOOSE j \in 1..U64Bytes :
                 a[j] # 0 /\ \A i \in (j + 1)..U64Bytes : a[i] = 0
    IN  ILog2(U64Radix) * (k - 1) + ILog2(a[k])

\* log2(0) of libm: minus infinity, below every rational under RLess
RNegInf == <<-1, 0>>

\* log2((busy - tx) / (time - tx) * multiplier); the quotient and the
\* multiplier are powers of two, so the logarithm of the product is the sum
\* of their logarithms
acs_survey_interference_factor(survey, min_nf) ==
    LET num == survey.channel_time_busy - survey.channel_time_tx
        den == survey.channel_time - survey.channel_time_tx
        mult == base_to_power(2, survey.nf - min_nf)
    IN  IF num = 0 \/ U64IsZero(mult) THEN RNegInf
        ELSE RInt(log2(num, den) + U64Log2(mult))

RECURSIVE SumFactors(_, _, _)
\* the dl_list_for_each loop of acs_chan_interference_factor: adds each
\* survey's factor to the running value acc
SumFactors(list, lowest_nf, acc) ==
    IF list = <<>> THEN acc
    ELSE SumFactors(Tail(list), lowest_nf,
                    RAdd(acc, acs_survey_interference_factor(Head(list), lowest_nf)))

\* the arithmetic mean of the factors of the surveys of a non-empty list
MeanFactor(list, lowest_nf) ==
    RDivInt(SumFactors(list, lowest_nf, RZero), Len(list))

\* the channel record after acs_chan_interference_factor(iface, chan)
acs_chan_interference_factor(lowest_nf, chan) ==
    IF chan.survey_list = <<>> \/ chan.disabled THEN chan
    ELSE [chan EXCEPT !.survey_interference_factor =
            RDivInt(SumFactors(chan.survey_list, lowest_nf,
                               chan.survey_interference_factor),
                    chan.survey_count)]

acs_usable_chan(chan) ==
    /\ chan.survey_count # 0
    /\ chan.survey_list # <<>>
    /\ ~chan.disabled

RECURSIVE acs_find_ideal_chan_loop_le(_, _, _, _)
\* acs_find_ideal_chan's loop with "<=" for "<": the last of several equal
\* minima wins
acs_find_ideal_chan_loop_le(channels, lowest_nf, i, ideal) ==
    IF i > Len(channels) THEN [channels |-> channels, ideal |-> ideal]
    ELSE IF ~acs_usable_chan(channels[i])
         THEN acs_find_ideal_chan_loop_le(channels, lowest_nf, i + 1, ideal)
         ELSE LET chs == [channels EXCEPT
                             ![i] = acs_chan_interference_factor(lowest_nf, channels[i])]
                  better == IF ideal = 0 THEN TRUE
                            ELSE ~RLess(chs[ideal].survey_interference_factor,
                                        chs[i].survey_interference_factor)
              IN  acs_find_ideal_chan_loop_le(chs, lowest_nf, i + 1,
                                              IF better THEN i ELSE ideal)

RECURSIVE acs_find_ideal_chan_loop(_, _, _, _)
\* the for loop of acs_find_ideal_chan from index i on; ideal = 0 is NULL.
\* Returns [channels, ideal].
acs_find_ideal_chan_loop(channels, lowest_nf, i, ideal) ==
    IF i > Len(channels) THEN [channels |-> channels, ideal |-> ideal]
    ELSE IF ~acs_usable_chan(channels[i])
         THEN acs_find_ideal_chan_loop(channels, lowest_nf, i + 1, ideal)
         ELSE LET chs == [channels EXCEPT
                             ![i] = acs_chan_interference_factor(lowest_nf, channels[i])]
                  better == IF ideal = 0 THEN TRUE
                            ELSE RLess(chs[i].survey_interference_factor,
                                       chs[ideal].survey_interference_factor)
              IN  acs_find_ideal_chan_loop(chs, lowest_nf, i + 1,
                                           IF better THEN i ELSE ideal)

acs_find_ideal_chan(channels, lowest_nf) ==
    acs_find_ideal_chan_loop(channels, lowest_nf, 1, 0)

(***************************************************************************)
(* Observation of one handler run                                          *)
(***************************************************************************)
NoDecision == [made |-> FALSE, usable |-> {}, ideal |-> 0, means |-> <<>>]

\* what the bring-up callback saw of the interface when it was invoked, and
\* what it returned
NoHandoff == [called |-> FALSE, completed |-> 0, surveyed |-> 0, channel |-> 0, ret |-> ""]

\* the world at the entry of a handler: nothing called, nothing returned yet
Enter(w, op) ==
    [w EXCEPT !.obs.op = op, !.obs.calls = <<>>, !.obs.ret = "",
              !.obs.term = "none", !.obs.ended = "none",
              !.obs.decision = NoDecision, !.obs.handoff = NoHandoff,
              !.obs.pass_end = -1, !.obs.restart = ""]

\* a call of a collaborator, with the cursor at the time of the call
Called(w, call) ==
    [w EXCEPT !.obs.calls = Append(@, [op |-> call.op, freq |-> call.freq, ok |-> call.ok,
                                       idx |-> w.iface.off_channel_freq_idx])]

(***************************************************************************)
(* Driver and bring-up collaborators                                       *)
(***************************************************************************)
ChanOfFreq(freq) == CHOOSE i \in ChanIdx : ChanFreq(i) = freq

\* hostapd_drv_remain_on_channel: an accepted dwell produces a ROC-started
\* and a ROC-cancelled event, delivered later in FIFO order
hostapd_drv_remain_on_channel(w, freq, ok) ==
    LET c == Called(w, [op |-> "remain_on_channel", freq |-> freq, ok |-> ok])
    IN  IF ok
        THEN [c EXCEPT !.drv.roc_q = @ \o <<[kind |-> "roc", freq |-> freq],
                                           [kind |-> "roc_cancel", freq |-> freq]>>,
                       !.drv.dwells = @ + 1,
                       !.obs.roc_count[ChanOfFreq(freq)] = @ + 1]
        ELSE [c EXCEPT !.obs.nominal = FALSE]

RECURSIVE MinNf(_, _)
MinNf(list, m) ==
    IF list = <<>> THEN m
    ELSE MinNf(Tail(list), IF Head(list).nf < m THEN Head(list).nf ELSE m)

\* the channel record with the surveys of one dump appended
DepositChan(chan, surveys) ==
    IF surveys = <<>> THEN chan
    ELSE LET list == chan.survey_list \o surveys
         IN  [chan EXCEPT !.survey_list = list,
                          !.survey_count = Len(list),
                          !.min_nf = MinNf(Tail(list), Head(list).nf)]

\* minimum min_nf over the channels that have surveys (0 when there is none)
LowestNf(channels) ==
    LET have == {i \in DOMAIN channels : channels[i].survey_list # <<>>}
    IN  IF have = {} THEN 0
        ELSE LET i == CHOOSE k \in have :
                         \A j \in have : channels[k].min_nf <= channels[j].min_nf
             IN  channels[i].min_nf

\* hostapd_drv_survey_freq: deposits zero or more surveys into the channel
\* record matching freq
hostapd_drv_survey_freq(w, freq, ok, surveys) ==
    LET c == Called(w, [op |-> "survey_freq", freq |-> freq, ok |-> ok])
        i == ChanOfFreq(freq)
        chans == [w.iface.channels EXCEPT ![i] = DepositChan(@, surveys)]
        first == surveys # <<>> /\ w.iface.channels[i].survey_list = <<>>
    IN  IF ok
        THEN [c EXCEPT !.obs.hist = Append(@, surveys),
                       !.iface.channels = chans,
                       !.iface.chans_surveyed = IF first THEN @ + 1 ELSE @,
                       !.iface.lowest_nf = IF surveys = <<>> THEN @ ELSE LowestNf(chans)]
        ELSE [c EXCEPT !.obs.nominal = FALSE]

\* hostapd_driver_scan
hostapd_driver_scan(w, ok) ==
    LET c == Called(w, [op |-> "scan", freq |-> 0, ok |-> ok])
    IN  IF ok THEN [c EXCEPT !.drv.scan_pending = TRUE] ELSE c

\* hostapd_acs_completed: the bring-up callback
hostapd_acs_completed(w) ==
    [Called(w, [op |-> "acs_completed", freq |-> 0, ok |-> TRUE])
        EXCEPT !.obs.bringups = @ + 1,
               !.obs.handoff = [called |-> TRUE,
                                completed |-> w.iface.acs_num_completed_surveys,
                                surveyed |-> w.iface.chans_surveyed,
                                channel |-> w.iface.conf_channel,
                                ret |-> ""]]

(***************************************************************************)
(* acs.c                                                                   *)
(***************************************************************************)
\* acs_clean_chan_surveys that unlinks only the first survey of the list
acs_clean_chan_first(chan) ==
    [chan EXCEPT !.survey_list = IF @ = <<>> THEN @ ELSE Tail(@),
                 !.min_nf = 0,
                 !.survey_count = IF @ = 0 THEN 0 ELSE @ - 1]

acs_clean_chan(chan) ==
    [chan EXCEPT !.survey_list = <<>>, !.min_nf = 0, !.survey_count = 0]

\* acs_cleanup without the reset of the cursor
acs_cleanup_keep_cursor(w) ==
    [w EXCEPT !.iface.channels = [i \in DOMAIN @ |-> acs_clean_chan(@[i])],
              !.iface.chans_surveyed = 0,
              !.iface.acs_num_completed_surveys = 0]

acs_cleanup(w) ==
    [w EXCEPT !.iface.channels = [i \in DOMAIN @ |-> acs_clean_chan(@[i])],
              !.iface.chans_surveyed = 0,
              !.iface.off_channel_freq_idx = 0,
              !.iface.acs_num_completed_surveys = 0]

acs_fail(w) ==
    [acs_cleanup(w) EXCEPT !.obs.term = "fail",
                           !.obs.ended = IF w.obs.active THEN "fail" ELSE @,
                           !.obs.active = FALSE]

\* acs_study_next_freq's loop without the skip of DISABLED channels
acs_study_next_freq_loop_noskip(w, i, roc_ok) ==
    IF i >= NumChannels THEN [w |-> w, ret |-> ""]
    ELSE LET chan == w.iface.channels[i + 1]
             r == hostapd_drv_remain_on_channel(w, chan.freq, roc_ok)
         IN  IF ~roc_ok
             THEN [w |-> r, ret |-> HOSTAPD_CHAN_INVALID]
             ELSE [w |-> [r EXCEPT !.iface.off_channel_freq_idx = i],
                   ret |-> HOSTAPD_CHAN_ACS]

RECURSIVE acs_study_next_freq_loop(_, _, _)
\* the for loop of acs_study_next_freq from 0-based index i on; returns
\* [w, ret] where ret = "" means that the loop ended without a return
acs_study_next_freq_loop(w, i, roc_ok) ==
    IF i >= NumChannels THEN [w |-> w, ret |-> ""]
    ELSE LET chan == w.iface.channels[i + 1]
         IN  IF chan.disabled THEN acs_study_next_freq_loop(w, i + 1, roc_ok)
             ELSE LET r == hostapd_drv_remain_on_channel(w, chan.freq, roc_ok)
                  IN  IF ~roc_ok
                      THEN [w |-> r, ret |-> HOSTAPD_CHAN_INVALID]
                      ELSE [w |-> [r EXCEPT !.iface.off_channel_freq_idx = i],
                            ret |-> HOSTAPD_CHAN_ACS]

\* acs_study_next_freq that returns ACS for INVALID when a pass ends without
\* any surveyed channel
acs_study_next_freq_acs(w, roc_ok) ==
    IF w.iface.off_channel_freq_idx > NumChannels
    THEN [w |-> w, ret |-> HOSTAPD_CHAN_INVALID]
    ELSE LET r == acs_study_next_freq_loop(w, w.iface.off_channel_freq_idx, roc_ok)
             e == [w EXCEPT !.obs.pass_end = w.iface.chans_surveyed]
         IN  IF r.ret # "" THEN r
             ELSE IF w.iface.chans_surveyed = 0
                  THEN [w |-> e, ret |-> HOSTAPD_CHAN_ACS]
                  ELSE [w |-> e, ret |-> HOSTAPD_CHAN_VALID]

acs_study_next_freq(w, roc_ok) ==
    IF w.iface.off_channel_freq_idx > NumChannels
    THEN [w |-> w, ret |-> HOSTAPD_CHAN_INVALID]
    ELSE LET r == acs_study_next_freq_loop(w, w.iface.off_channel_freq_idx, roc_ok)
             e == [w EXCEPT !.obs.pass_end = w.iface.chans_surveyed]
         IN  IF r.ret # "" THEN r
             ELSE IF w.iface.chans_surveyed = 0
                  THEN [w |-> e, ret |-> HOSTAPD_CHAN_INVALID]
                  ELSE [w |-> e, ret |-> HOSTAPD_CHAN_VALID]

\* acs_study_complete from "if (!iface->chans_surveyed)" on: the Deciding
\* and Handoff steps
acs_study_decide(w, bringup_ret) ==
    IF w.iface.chans_surveyed = 0 THEN acs_fail(w)
    ELSE LET sel == acs_find_ideal_chan(w.iface.channels, w.iface.lowest_nf)
             usable == {i \in ChanIdx : acs_usable_chan(w.iface.channels[i])}
             means == [i \in ChanIdx |->
                         IF i \in usable
                         THEN MeanFactor(w.iface.channels[i].survey_list, w.iface.lowest_nf)
                         ELSE RZero]
             d == [w EXCEPT !.iface.channels = sel.channels,
                            !.obs.decision = [made |-> TRUE, usable |-> usable,
                                              ideal |-> sel.ideal, means |-> means]]
         IN  IF sel.ideal = 0 THEN acs_fail(d)
             ELSE LET c == [hostapd_acs_completed(
                               [d EXCEPT !.iface.conf_channel =
                                             sel.channels[sel.ideal].chan])
                              EXCEPT !.obs.handoff.ret = bringup_ret]
                  IN  IF bringup_ret = HOSTAPD_CHAN_VALID
                      THEN [acs_cleanup(c) EXCEPT
                               !.obs.term = "valid",
                               !.obs.ended = IF c.obs.active THEN "ok" ELSE @,
                               !.obs.active = FALSE,
                               !.obs.decisions =
                                   IF c.obs.active /\ c.obs.nominal
                                   THEN Append(@, [hist |-> c.obs.hist,
                                                   chan |-> c.iface.conf_channel])
                                   ELSE @]
                      ELSE acs_fail(c)

\* acs_study_complete with "<=" for "<" in the comparison of the passes
acs_study_complete_le(w, roc_ok, bringup_ret) ==
    LET n == [w EXCEPT !.iface.acs_num_completed_surveys = @ + 1]
    IN  IF n.iface.acs_num_completed_surveys <= n.iface.acs_num_req_surveys
        THEN LET r == acs_study_next_freq(
                          [n EXCEPT !.iface.off_channel_freq_idx = 0], roc_ok)
                 o == [r.w EXCEPT !.obs.restart = r.ret]
             IN  IF r.ret = HOSTAPD_CHAN_ACS THEN o ELSE acs_fail(o)
        ELSE acs_study_decide(n, bringup_ret)

\* acs_study_complete that writes the best channel so far to conf.channel at
\* the end of every pass
acs_study_complete_eager(w, roc_ok, bringup_ret) ==
    LET sel == acs_find_ideal_chan(w.iface.channels, w.iface.lowest_nf)
        n == [w EXCEPT !.iface.acs_num_completed_surveys = @ + 1,
                       !.iface.conf_channel =
                           IF sel.ideal = 0 THEN @
                           ELSE w.iface.channels[sel.ideal].chan]
    IN  IF n.iface.acs_num_completed_surveys < n.iface.acs_num_req_surveys
        THEN LET r == acs_study_next_freq(
                          [n EXCEPT !.iface.off_channel_freq_idx = 0], roc_ok)
                 o == [r.w EXCEPT !.obs.restart = r.ret]
             IN  IF r.ret = HOSTAPD_CHAN_ACS THEN o ELSE acs_fail(o)
        ELSE acs_study_decide(n, bringup_ret)

\* acs_study_complete without the count of the completed passes
acs_study_complete_forever(w, roc_ok, bringup_ret) ==
    IF w.iface.acs_num_completed_surveys < w.iface.acs_num_req_surveys
    THEN LET r == acs_study_next_freq(
                      [w EXCEPT !.iface.off_channel_freq_idx = 0], roc_ok)
             o == [r.w EXCEPT !.obs.restart = r.ret]
         IN  IF r.ret = HOSTAPD_CHAN_ACS THEN o ELSE acs_fail(o)
    ELSE acs_study_decide(w, bringup_ret)

\* acs_study_complete that decides after the first pass
acs_study_complete_onepass(w, roc_ok, bringup_ret) ==
    acs_study_decide([w EXCEPT !.iface.acs_num_completed_surveys = @ + 1],
                     bringup_ret)

\* acs_study_complete without the reset of the cursor for the next pass
acs_study_complete_noreset(w, roc_ok, bringup_ret) ==
    LET n == [w EXCEPT !.iface.acs_num_completed_surveys = @ + 1]
    IN  IF n.iface.acs_num_completed_surveys < n.iface.acs_num_req_surveys
        THEN LET r == acs_study_next_freq(n, roc_ok)
                 o == [r.w EXCEPT !.obs.restart = r.ret]
             IN  IF r.ret = HOSTAPD_CHAN_ACS THEN o ELSE acs_fail(o)
        ELSE acs_study_decide(n, bringup_ret)

acs_study_complete(w, roc_ok, bringup_ret) ==
    LET n == [w EXCEPT !.iface.acs_num_completed_surveys = @ + 1]
    IN  IF n.iface.acs_num_completed_surveys < n.iface.acs_num_req_surveys
        THEN LET r == acs_study_next_freq(
                          [n EXCEPT !.iface.off_channel_freq_idx = 0], roc_ok)
                 o == [r.w EXCEPT !.obs.restart = r.ret]
             IN  IF r.ret = HOSTAPD_CHAN_ACS THEN o ELSE acs_fail(o)
        ELSE acs_study_decide(n, bringup_ret)

\* acs_roc_next that goes on to the next channel when the survey dump failed
acs_roc_next_noerr(w, freq, survey_ok, surveys, roc_ok, bringup_ret) ==
    LET s == hostapd_drv_survey_freq(w, freq, survey_ok, surveys)
        r == acs_study_next_freq(
                 [s EXCEPT !.iface.off_channel_freq_idx = @ + 1], roc_ok)
    IN  CASE r.ret = HOSTAPD_CHAN_VALID ->
                 acs_study_complete(r.w, roc_ok, bringup_ret)
          [] r.ret = HOSTAPD_CHAN_ACS -> r.w
          [] OTHER -> acs_fail(r.w)

acs_roc_next(w, freq, survey_ok, surveys, roc_ok, bringup_ret) ==
    LET s == hostapd_drv_survey_freq(w, freq, survey_ok, surveys)
    IN  IF ~survey_ok THEN acs_fail(s)
        ELSE LET r == acs_study_next_freq(
                          [s EXCEPT !.iface.off_channel_freq_idx = @ + 1], roc_ok)
             IN  CASE r.ret = HOSTAPD_CHAN_VALID ->
                          acs_study_complete(r.w, roc_ok, bringup_ret)
                   [] r.ret = HOSTAPD_CHAN_ACS -> r.w
                   [] OTHER -> acs_fail(r.w)

\* hostapd_notify_acs_roc that moves the cursor on when the dwell started
hostapd_notify_acs_roc_advance(w, freq, roc_status) ==
    IF roc_status # 0 THEN acs_fail(w)
    ELSE [w EXCEPT !.iface.off_channel_freq_idx = @ + 1]

hostapd_notify_acs_roc(w, freq, roc_status) ==
    IF roc_status # 0 THEN acs_fail(w) ELSE w

\* hostapd_notify_acs_roc_cancel without the return after acs_fail
hostapd_notify_acs_roc_cancel_noreturn(w, freq, roc_status, survey_ok, surveys, roc_ok, bringup_ret) ==
    acs_roc_next(IF roc_status # 0 THEN acs_fail(w) ELSE w,
                 freq, survey_ok, surveys, roc_ok, bringup_ret)

hostapd_notify_acs_roc_cancel(w, freq, roc_status, survey_ok, surveys, roc_ok, bringup_ret) ==
    IF roc_status # 0 THEN acs_fail(w)
    ELSE acs_roc_next(w, freq, survey_ok, surveys, roc_ok, bringup_ret)

acs_init_scan_complete(w, roc_ok) ==
    LET c == [acs_cleanup(w) EXCEPT !.iface.acs_num_completed_surveys = 0]
        r == acs_study_next_freq(c, roc_ok)
    IN  IF r.ret = HOSTAPD_CHAN_ACS THEN r.w ELSE acs_fail(r.w)

\* acs_init_scan returning 0 for an accepted scan
acs_init_scan_zero(w, scan_ok) ==
    LET s == hostapd_driver_scan(w, scan_ok)
    IN  IF ~scan_ok THEN [w |-> s, ret |-> -1]
        ELSE [w |-> [s EXCEPT !.iface.scan_cb = "acs_init_scan_complete"],
              ret |-> 0]

\* returns [w, ret]
acs_init_scan(w, scan_ok) ==
    LET s == hostapd_driver_scan(w, scan_ok)
    IN  IF ~scan_ok THEN [w |-> s, ret |-> -1]
        ELSE [w |-> [s EXCEPT !.iface.scan_cb = "acs_init_scan_complete"],
              ret |-> 1]

acs_sanity_check(w) ==
    IF w.iface.chans_surveyed # 0 THEN -1
    ELSE IF ~w.iface.drv_flags_offchannel_tx THEN -1
    ELSE 0

\* returns [w, ret]
acs_init(w, scan_ok) ==
    IF acs_sanity_check(w) < 0 THEN [w |-> w, ret |-> HOSTAPD_CHAN_INVALID]
    ELSE LET r == acs_init_scan(w, scan_ok)
         IN  IF r.ret < 0 THEN [w |-> r.w, ret |-> HOSTAPD_CHAN_INVALID]
             ELSE IF r.ret = 1 THEN [w |-> r.w, ret |-> HOSTAPD_CHAN_ACS]
             ELSE [w |-> r.w, ret |-> HOSTAPD_CHAN_INVALID]

(***************************************************************************)
(* State machine                                                           *)
(***************************************************************************)
World == [iface |-> iface, drv |-> drv, obs |-> obs]

\* the observer keeps the dwell counts and the survey history only for an
\* invocation in which nothing has failed so far
Observed(o) ==
    IF o.nominal THEN o
    ELSE [o EXCEPT !.roc_count = [i \in ChanIdx |-> 0], !.hist = <<>>]

Becomes(w) ==
    /\ iface' = w.iface
    /\ drv' = w.drv
    /\ obs' = Observed(w.obs)
    /\ calc' = calc

InitChannel(i, disabled) ==
    [chan |-> ChanNum(i), freq |-> ChanFreq(i), disabled |-> disabled,
     survey_list |-> <<>>, survey_count |-> 0, min_nf |-> 0,
     survey_interference_factor |-> RZero]

InitIface(flags, req, offchannel_tx) ==
    [channels |-> [i \in ChanIdx |-> InitChannel(i, flags[i])],
     chans_surveyed |-> 0,
     off_channel_freq_idx |-> 0,
     acs_num_completed_surveys |-> 0,
     lowest_nf |-> 0,
     conf_channel |-> 0,
     acs_num_req_surveys |-> req,
     drv_flags_offchannel_tx |-> offchannel_tx,
     scan_cb |-> "NULL"]

InitDrv == [roc_q |-> <<>>, scan_pending |-> FALSE, dwells |-> 0]

InitObs ==
    [op |-> "none", ev |-> [freq |-> 0, status |-> 0],
     calls |-> <<>>, ret |-> "", term |-> "none", ended |-> "none",
     decision |-> NoDecision, handoff |-> NoHandoff,
     pass_end |-> -1, restart |-> "",
     active |-> FALSE, inv |-> 0,
     roc_count |-> [i \in ChanIdx |-> 0], bringups |-> 0,
     nominal |-> FALSE, saved_channel |-> 0, hist |-> <<>>,
     decisions |-> <<>>]

\* calc holds the inputs and results of the scoring function and the count
\* of the cleanups when one of them is exercised on its own
NoCalc ==
    [op |-> "none", a |-> SurveyA, b |-> SurveyA, min_nf |-> 0,
     fa |-> RZero, fb |-> RZero, n |-> 0, dirty |-> FALSE]

Init ==
    \E flags \in [ChanIdx -> BOOLEAN], req \in 1..MaxReqSurveys,
       offchannel_tx \in BOOLEAN :
      /\ iface = InitIface(flags, req, offchannel_tx)
      /\ drv = InitDrv
      /\ obs = InitObs
      /\ calc = NoCalc

\* the driver may refuse any dwell request, and refuses once it has accepted
\* MaxDwells of them
RocAnswers == IF drv.dwells < MaxDwells THEN BOOLEAN ELSE {FALSE}

\* the bring-up sequence calls acs_init when no selection is in progress
AcsInit ==
    /\ ~obs.active
    /\ obs.inv < MaxInvocations
    /\ \E scan_ok \in BOOLEAN :
         LET w0 == [Enter(World, "acs_init") EXCEPT
                       !.obs.inv = @ + 1,
                       !.obs.saved_channel = iface.conf_channel,
                       !.obs.roc_count = [i \in ChanIdx |-> 0],
                       !.obs.bringups = 0,
                       !.obs.hist = <<>>,
                       !.obs.nominal = (drv.roc_q = <<>> /\ ~drv.scan_pending)]
             r == acs_init(w0, scan_ok)
             invalid == r.ret = HOSTAPD_CHAN_INVALID
         IN  Becomes([r.w EXCEPT
                        !.obs.ret = r.ret,
                        !.obs.active = (r.ret = HOSTAPD_CHAN_ACS),
                        !.obs.term = IF invalid THEN "init_invalid" ELSE @,
                        !.obs.ended = IF invalid THEN "init_invalid" ELSE @])

\* the driver reports the end of the initial scan: iface->scan_cb(iface)
ScanComplete ==
    /\ drv.scan_pending
    /\ iface.scan_cb = "acs_init_scan_complete"
    /\ \E roc_ok \in RocAnswers :
         Becomes(acs_init_scan_complete(
                   [Enter(World, "scan_cb") EXCEPT !.drv.scan_pending = FALSE],
                   roc_ok))

\* the world at the entry of a ROC event hook: the event leaves the queue
Deliver(op, status) ==
    [Enter(World, op) EXCEPT
        !.drv.roc_q = Tail(@),
        !.obs.ev = [freq |-> Head(drv.roc_q).freq, status |-> status],
        !.obs.nominal = IF status # 0 THEN FALSE ELSE @]

RocStatus == {0, 1}

NotifyRoc ==
    /\ drv.roc_q # <<>>
    /\ Head(drv.roc_q).kind = "roc"
    /\ \E status \in RocStatus :
         Becomes(hostapd_notify_acs_roc(Deliver("roc", status),
                                        Head(drv.roc_q).freq, status))

NotifyRocCancel ==
    /\ drv.roc_q # <<>>
    /\ Head(drv.roc_q).kind = "roc_cancel"
    /\ \E status \in RocStatus, survey_ok \in BOOLEAN :
         \E surveys \in (IF status = 0 /\ survey_ok THEN Deposits ELSE {<<>>}),
            roc_ok \in (IF status = 0 /\ survey_ok THEN RocAnswers ELSE {FALSE}),
            bringup_ret \in (IF status = 0 /\ survey_ok
                             THEN {HOSTAPD_CHAN_VALID, HOSTAPD_CHAN_INVALID}
                             ELSE {HOSTAPD_CHAN_INVALID}) :
           Becomes(hostapd_notify_acs_roc_cancel(
                     Deliver("roc_cancel", status), Head(drv.roc_q).freq, status,
                     survey_ok, surveys, roc_ok, bringup_ret))

Next == AcsInit \/ ScanComplete \/ NotifyRoc \/ NotifyRocCancel

Spec == Init /\ [][Next]_vars

\* the driver is fair: a pending scan completes and a queued ROC event is
\* delivered
LiveSpec ==
    /\ Init
    /\ [][Next]_vars
    /\ WF_vars(ScanComplete)
    /\ WF_vars(NotifyRoc)
    /\ WF_vars(NotifyRocCancel)

(***************************************************************************)
(* The scoring function on its own                                         *)
(***************************************************************************)
\* largest nf - nf_ref tried
MaxNfDiff == 65
\* the reference noise floor: the lowest signed 8-bit value
NfRef == -128

\* nf - nf_ref: the smallest differences and the ones around the width of u64
NfDiffs == {0, 1} \cup ((MaxNfDiff - 3)..MaxNfDiff)

\* (time, tx) and the busy times tried with them: tx <= busy <= time,
\* time > tx, and (busy - tx) / (time - tx) is 0 or a power of two
ScoreTimes == {[time |-> 800, tx |-> 0], [time |-> 1700, tx |-> 100]}
ScoreBusy(t) == {t.tx} \cup {t.tx + (t.time - t.tx) \div d : d \in {1, 2, 4, 8}}

ScoreSurvey(t, busy, nf) ==
    [channel_time |-> t.time, channel_time_busy |-> busy,
     channel_time_tx |-> t.tx, nf |-> nf]

ScoreInit ==
    /\ iface = InitIface([i \in ChanIdx |-> FALSE], 1, TRUE)
    /\ drv = InitDrv
    /\ obs = InitObs
    /\ calc = NoCalc

\* scores two surveys that differ in channel_time_busy or in nf
Score ==
    /\ calc.op = "none"
    /\ \E t \in ScoreTimes :
         \E busy_a, busy_b \in ScoreBusy(t), da, db \in NfDiffs :
           /\ busy_a = busy_b \/ da = db
           /\ LET a == ScoreSurvey(t, busy_a, NfRef + da)
                  b == ScoreSurvey(t, busy_b, NfRef + db)
              IN  calc' = [NoCalc EXCEPT
                             !.op = "score", !.a = a, !.b = b, !.min_nf = NfRef,
                             !.fa = acs_survey_interference_factor(a, NfRef),
                             !.fb = acs_survey_interference_factor(b, NfRef)]
           /\ UNCHANGED <<iface, drv, obs>>

ScoreSpec == ScoreInit /\ [][Score]_vars

(***************************************************************************)
(* acs_cleanup on its own, from any interface state                        *)
(***************************************************************************)
\* what acs_cleanup leaves behind
CleanState ==
    /\ \A i \in ChanIdx :
         /\ iface.channels[i].survey_list = <<>>
         /\ iface.channels[i].survey_count = 0
         /\ iface.channels[i].min_nf = 0
    /\ iface.chans_surveyed = 0
    /\ iface.off_channel_freq_idx = 0
    /\ iface.acs_num_completed_surveys = 0

\* a channel record in any state: survey_count and min_nf need not agree
\* with survey_list
AnyChannels ==
    {[InitChannel(1, FALSE) EXCEPT !.survey_list = l, !.survey_count = c, !.min_nf = m] :
        l \in Deposits, c \in 0..1, m \in {0, SurveyB.nf}}

AnyChannel(i, any) ==
    [any EXCEPT !.chan = ChanNum(i), !.freq = ChanFreq(i),
                !.survey_count = IF @ = 0 THEN 0 ELSE Len(any.survey_list)]

CleanupInit ==
    /\ \E chans \in [ChanIdx -> AnyChannels], surveyed \in 0..NumChannels,
          idx \in 0..NumChannels, completed \in 0..MaxReqSurveys :
         /\ iface = [InitIface([i \in ChanIdx |-> FALSE], MaxReqSurveys, TRUE) EXCEPT
                        !.channels = [i \in ChanIdx |-> AnyChannel(i, chans[i])],
                        !.chans_surveyed = surveyed,
                        !.off_channel_freq_idx = idx,
                        !.acs_num_completed_surveys = completed]
         /\ calc = [NoCalc EXCEPT !.op = "cleanup", !.dirty = ~CleanState]
    /\ drv = InitDrv
    /\ obs = InitObs

\* acs_cleanup(iface), applied at most twice
Cleanup ==
    /\ calc.n < 2
    /\ iface' = acs_cleanup(World).iface
    /\ calc' = [calc EXCEPT !.n = @ + 1]
    /\ UNCHANGED <<drv, obs>>

CleanupSpec == CleanupInit /\ [][Cleanup]_vars

(***************************************************************************)
(* Vocabulary of the properties                                            *)
(***************************************************************************)
\* the calls op made by the last handler
CallsOf(op) == {k \in DOMAIN obs.calls : obs.calls[k].op = op}

BringupCalled == CallsOf("acs_completed") # {}

Enabled == {i \in ChanIdx : ~iface.channels[i].disabled}

\* a ROC-started or ROC-cancelled event is handled in this step
RocEvent == NotifyRoc \/ NotifyRocCancel

Factor(i) == iface.channels[i].survey_interference_factor

(***************************************************************************)
(* C1: a DISABLED channel is never passed to remain_on_channel, is never   *)
(* the channel acs_find_ideal_chan returns, and conf.channel never holds   *)
(* its number.                                                             *)
(***************************************************************************)
C1_DisabledNeverUsed ==
    /\ \A k \in CallsOf("remain_on_channel") :
         ~iface.channels[ChanOfFreq(obs.calls[k].freq)].disabled
    /\ obs.decision.made /\ obs.decision.ideal # 0
         => ~iface.channels[obs.decision.ideal].disabled
    /\ \A i \in ChanIdx :
         iface.channels[i].disabled => iface.conf_channel # iface.channels[i].chan

\* a sweep over a channel list with a DISABLED first channel was decided
C1_Witness ==
    /\ iface.channels[1].disabled
    /\ obs.decision.made
    /\ obs.decision.ideal # 0
    /\ BringupCalled

(***************************************************************************)
(* C2: a ROC event with non-zero status during an active invocation runs   *)
(* cleanup and, in that handler, requests no dwell and no survey dump,     *)
(* leaves conf.channel alone and does not invoke the bring-up callback.    *)
(***************************************************************************)
C2_EventFailureNoRetry ==
    [][(obs.active /\ obs'.ev.status # 0 /\ RocEvent)
         => /\ obs'.calls = <<>>
            /\ obs'.term = "fail"
            /\ obs'.ended = "fail"
            /\ CleanState'
            /\ iface'.conf_channel = iface.conf_channel]_vars

\* a ROC-cancelled event with non-zero status for the second channel ended an
\* invocation that had already dwelled on the first
C2_Witness ==
    /\ obs.op = "roc_cancel"
    /\ obs.ev.status # 0
    /\ obs.ended = "fail"
    /\ obs.ev.freq = ChanFreq(2)
    /\ ~iface.channels[1].disabled

(***************************************************************************)
(* C3: a ROC event delivered while no invocation is active changes no ACS  *)
(* field and causes no driver request and no bring-up callback.            *)
(***************************************************************************)
C3_IdleEventIgnored ==
    [][(~obs.active /\ RocEvent)
         => /\ obs'.calls = <<>>
            /\ iface'.off_channel_freq_idx = iface.off_channel_freq_idx
            /\ iface'.chans_surveyed = iface.chans_surveyed
            /\ iface'.acs_num_completed_surveys = iface.acs_num_completed_surveys
            /\ iface'.channels = iface.channels
            /\ iface'.conf_channel = iface.conf_channel]_vars

(***************************************************************************)
(* C4: after any terminal transition (acs_init returning INVALID, acs_fail *)
(* run, bring-up returning VALID) all per-channel survey data is empty and *)
(* chans_surveyed, off_channel_freq_idx, acs_num_completed_surveys are 0.  *)
(***************************************************************************)
C4_TerminalIsClean == obs.term # "none" => CleanState

(***************************************************************************)
(* C5: in an invocation where the driver accepts every request, every ROC  *)
(* event has status 0 and every dump succeeds, by the time the bring-up    *)
(* callback is invoked each non-DISABLED channel was dwelled on exactly    *)
(* acs_num_req_surveys times and no DISABLED channel was.                  *)
(***************************************************************************)
C5_RocCount ==
    (obs.nominal /\ BringupCalled)
      => \A i \in ChanIdx :
           obs.roc_count[i] = IF iface.channels[i].disabled THEN 0
                              ELSE iface.acs_num_req_surveys

\* two passes over two enabled channels ended in the bring-up callback
C5_Witness ==
    /\ obs.nominal
    /\ BringupCalled
    /\ iface.acs_num_req_surveys = 2
    /\ Cardinality(Enabled) >= 2

(***************************************************************************)
(* C6: the channel chosen in the Deciding step is usable, no usable        *)
(* channel has a strictly smaller survey_interference_factor, among the    *)
(* usable channels of equal minimal factor it has the lowest index, and    *)
(* its number is what conf.channel holds when the bring-up callback is     *)
(* invoked; with no usable channel nothing is chosen and the bring-up      *)
(* callback is not invoked.                                                *)
(***************************************************************************)
C6_SelectorArgmin ==
    obs.decision.made =>
      LET usable == obs.decision.usable
          ideal == obs.decision.ideal
      IN  IF usable = {}
          THEN ideal = 0 /\ ~BringupCalled /\ obs.term = "fail"
          ELSE /\ ideal \in usable
               /\ \A j \in usable :
                    /\ ~RLess(Factor(j), Factor(ideal))
                    /\ Factor(j) = Factor(ideal) => ideal <= j
               /\ BringupCalled
               /\ iface.conf_channel = iface.channels[ideal].chan

\* the second of two usable channels won with a strictly smaller factor
C6_Witness ==
    /\ obs.decision.made
    /\ obs.decision.usable = {1, 2}
    /\ obs.decision.ideal = 2
    /\ RLess(Factor(2), Factor(1))

\* two usable channels tied and the first one won
C6_TieWitness ==
    /\ obs.decision.made
    /\ obs.decision.usable = {1, 2}
    /\ obs.decision.ideal = 1
    /\ Factor(2) = Factor(1)
    /\ Factor(1) # RZero

(***************************************************************************)
(* C7: two complete invocations in which the driver reports the same       *)
(* survey data, statuses and flags select the same channel.                *)
(***************************************************************************)
C7_SameDataSameDecision ==
    \A a, b \in DOMAIN obs.decisions :
        obs.decisions[a].hist = obs.decisions[b].hist
          => obs.decisions[a].chan = obs.decisions[b].chan

(***************************************************************************)
(* C8 as stated: every invocation that ends in failure leaves conf.channel *)
(* at the value it had before acs_init.                                    *)
(***************************************************************************)
C8_FailureKeepsChannel ==
    obs.ended \in {"fail", "init_invalid"}
      => iface.conf_channel = obs.saved_channel

(***************************************************************************)
(* C8 amended: an invocation that ends in failure before the bring-up      *)
(* callback was invoked leaves conf.channel at the value it had before     *)
(* acs_init; conf.channel is written only in the Deciding step, right      *)
(* before the bring-up callback, and keeps the selected number when that   *)
(* callback reports failure.                                               *)
(***************************************************************************)
C8_FailureBeforeHandoffKeepsChannel ==
    /\ [](obs.ended \in {"fail", "init_invalid"} /\ obs.bringups = 0
            => iface.conf_channel = obs.saved_channel)
    /\ [](obs.ended = "fail" /\ BringupCalled
            => /\ obs.decision.ideal # 0
               /\ iface.conf_channel = iface.channels[obs.decision.ideal].chan)
    /\ [][iface'.conf_channel # iface.conf_channel => BringupCalled']_vars

\* the invocation failed in the handler of the second channel's ROC-cancelled
\* event, before any bring-up call: the channel is kept
C8_Witness ==
    /\ obs.ended = "fail"
    /\ obs.bringups = 0
    /\ obs.op = "roc_cancel"
    /\ obs.ev.freq = ChanFreq(2)
    /\ ~iface.channels[1].disabled
    /\ iface.conf_channel = obs.saved_channel

(***************************************************************************)
(* C9: acs_init returns INVALID or ACS, never VALID; it requests no dwell; *)
(* it returns ACS exactly when the scan request was accepted, and then     *)
(* scan_cb is the scan-complete continuation; without the off-channel TX   *)
(* capability it returns INVALID without asking the driver anything.       *)
(***************************************************************************)
C9_InitReturn ==
    obs.op = "acs_init" =>
      /\ obs.ret \in {HOSTAPD_CHAN_INVALID, HOSTAPD_CHAN_ACS}
      /\ CallsOf("remain_on_channel") = {}
      /\ obs.ret = HOSTAPD_CHAN_ACS
           <=> \E k \in CallsOf("scan") : obs.calls[k].ok
      /\ obs.ret = HOSTAPD_CHAN_ACS
           => iface.scan_cb = "acs_init_scan_complete" /\ drv.scan_pending
      /\ ~iface.drv_flags_offchannel_tx
           => obs.ret = HOSTAPD_CHAN_INVALID /\ obs.calls = <<>>

\* acs_init returned ACS
C9_Witness ==
    /\ obs.op = "acs_init"
    /\ obs.ret = HOSTAPD_CHAN_ACS

\* the driver refused the scan
C9_RefusedWitness ==
    /\ obs.op = "acs_init"
    /\ obs.ret = HOSTAPD_CHAN_INVALID
    /\ CallsOf("scan") # {}

(***************************************************************************)
(* C10: off_channel_freq_idx never exceeds the number of channels, between *)
(* handlers and also right after the increment in acs_roc_next that the    *)
(* next ROC-cancelled event performs.                                      *)
(***************************************************************************)
C10_CursorInBounds ==
    /\ iface.off_channel_freq_idx <= NumChannels
    /\ iface.off_channel_freq_idx + 1 <= NumChannels

\* the dwell on the last channel completed and the next pass started
C10_Witness ==
    /\ obs.op = "roc_cancel"
    /\ obs.ev = [freq |-> ChanFreq(NumChannels), status |-> 0]
    /\ iface.acs_num_completed_surveys = 1
    /\ CallsOf("remain_on_channel") # {}

(***************************************************************************)
(* C11: under a fair driver every invocation for which acs_init returned   *)
(* ACS eventually terminates (the bring-up callback is invoked or acs_fail *)
(* is run); in an invocation without failures every ROC-cancelled event    *)
(* that does not end it strictly decreases the number of dwells that       *)
(* remain, which is finite for a finite channel list and a finite          *)
(* acs_num_req_surveys.                                                    *)
(***************************************************************************)
\* the dwells that remain: the passes to go times the channels, less the cursor
Remaining ==
    (iface.acs_num_req_surveys - iface.acs_num_completed_surveys) * (NumChannels + 1)
      - iface.off_channel_freq_idx

C11_Terminates ==
    /\ obs.active ~> (~obs.active /\ (obs.term = "fail" \/ BringupCalled))
    \* obs.op names the handler that made the step
    /\ [][(obs.active /\ obs.nominal /\ obs'.active /\ obs'.op = "roc_cancel")
            => (Remaining' < Remaining /\ Remaining' > 0)]_vars

\* an invocation of two passes over two channels ended in the bring-up callback
C11_Witness ==
    /\ ~obs.active
    /\ obs.nominal
    /\ BringupCalled
    /\ obs.handoff.completed = 2
    /\ Cardinality(Enabled) = 2

(***************************************************************************)
(* C12: the bring-up callback is invoked at most once in an invocation,    *)
(* and it ends the invocation; when it is invoked,                         *)
(* acs_num_completed_surveys has reached acs_num_req_surveys,              *)
(* chans_surveyed is non-zero and conf.channel holds the number of the     *)
(* selected channel; a return of VALID leads to cleanup without acs_fail,  *)
(* any other return to acs_fail.                                           *)
(***************************************************************************)
C12_BringupOnce ==
    /\ obs.active => obs.bringups = 0
    /\ Cardinality(CallsOf("acs_completed")) <= 1
    /\ BringupCalled =>
         /\ ~obs.active
         /\ obs.handoff.called
         /\ obs.handoff.completed >= iface.acs_num_req_surveys
         /\ obs.handoff.surveyed > 0
         /\ obs.decision.made /\ obs.decision.ideal # 0
         /\ obs.handoff.channel = iface.channels[obs.decision.ideal].chan
         /\ CleanState
         /\ obs.term = (IF obs.handoff.ret = HOSTAPD_CHAN_VALID THEN "valid" ELSE "fail")

\* the bring-up callback of a two-pass invocation reported a failure
C12_Witness ==
    /\ BringupCalled
    /\ obs.ended = "fail"
    /\ obs.handoff.completed = 2
    /\ obs.handoff.ret # HOSTAPD_CHAN_VALID

\* the bring-up callback returned VALID
C12_ValidWitness ==
    /\ BringupCalled
    /\ obs.ended = "ok"
    /\ obs.handoff.ret = HOSTAPD_CHAN_VALID

(***************************************************************************)
(* C14: when a pass ends (no non-DISABLED channel at or after the cursor)  *)
(* while chans_surveyed is 0, the engine fails with cleanup and neither    *)
(* the selector nor the bring-up callback is invoked.                      *)
(***************************************************************************)
C14_EmptySurveyFails ==
    obs.pass_end = 0 =>
      /\ obs.term = "fail"
      /\ CleanState
      /\ ~obs.decision.made
      /\ ~BringupCalled
      /\ CallsOf("remain_on_channel") = {}

\* every dwell of a pass over two channels completed and every dump came
\* back empty
C14_Witness ==
    /\ obs.pass_end = 0
    /\ obs.op = "roc_cancel"
    /\ obs.ev = [freq |-> ChanFreq(2), status |-> 0]
    /\ obs.ended = "fail"
    /\ \E k \in CallsOf("survey_freq") : obs.calls[k].ok
    /\ Cardinality(Enabled) = 2

(***************************************************************************)
(* C16: in every invocation, a later one on the same interface included,   *)
(* after acs_find_ideal_chan has processed a usable channel its            *)
(* survey_interference_factor is the arithmetic mean of the factors of the *)
(* measurements in its survey_list (stated for the invocations that start *)
(* with no event pending and in which no request or event fails).          *)
(***************************************************************************)
C16_FactorIsMean ==
    (obs.decision.made /\ obs.nominal) =>
      \A i \in obs.decision.usable : Factor(i) = obs.decision.means[i]

(***************************************************************************)
(* C17: a ROC-cancelled event with status 0 requests the survey dump for   *)
(* the frequency of the event first, with the cursor still where it was;   *)
(* a dwell request comes after it; when the dump fails nothing else is     *)
(* requested and the engine fails with cleanup.                            *)
(***************************************************************************)
C17_DumpBeforeAdvance ==
    \* obs.op names the handler that made the step
    [][(obs'.op = "roc_cancel" /\ obs'.ev.status = 0)
         => /\ obs'.calls # <<>>
            /\ obs'.calls[1].op = "survey_freq"
            /\ obs'.calls[1].freq = obs'.ev.freq
            /\ obs'.calls[1].idx = iface.off_channel_freq_idx
            /\ \A k \in DOMAIN obs'.calls :
                 k > 1 => obs'.calls[k].op # "survey_freq"
            /\ ~obs'.calls[1].ok
                 => /\ Len(obs'.calls) = 1
                    /\ obs'.term = "fail"
                    /\ CleanState']_vars

\* the dump for the first channel's dwell failed
C17_Witness ==
    /\ obs.op = "roc_cancel"
    /\ obs.ev = [freq |-> ChanFreq(1), status |-> 0]
    /\ obs.calls # <<>>
    /\ ~obs.calls[1].ok
    /\ obs.ended = "fail"

\* the dump succeeded and the dwell on the next channel was requested
C17_NextWitness ==
    /\ obs.op = "roc_cancel"
    /\ obs.ev = [freq |-> ChanFreq(1), status |-> 0]
    /\ Len(obs.calls) = 2
    /\ obs.calls[2] = [op |-> "remain_on_channel", freq |-> ChanFreq(2),
                       ok |-> TRUE, idx |-> 1]

(***************************************************************************)
(* C18: a ROC-started event with status 0 changes no field of the          *)
(* interface and issues no request; of the two ROC events only the         *)
(* ROC-cancelled one moves the cursor forward.                             *)
(***************************************************************************)
C18_RocStartedInformational ==
    \* obs.op names the handler that made the step
    /\ [][(obs'.op = "roc" /\ obs'.ev.status = 0)
            => /\ iface' = iface
               /\ obs'.calls = <<>>
               /\ obs'.term = "none"]_vars
    /\ [][(iface'.off_channel_freq_idx > iface.off_channel_freq_idx
              /\ obs'.op \in {"roc", "roc_cancel"})
            => obs'.op = "roc_cancel"]_vars

\* a ROC-started event with status 0 was handled during a sweep that already
\* holds survey data
C18_Witness ==
    /\ obs.op = "roc"
    /\ obs.ev.status = 0
    /\ obs.active
    /\ iface.chans_surveyed > 0
    /\ iface.off_channel_freq_idx > 0

(***************************************************************************)
(* C19: at the start of a non-initial pass (acs_study_complete with        *)
(* acs_num_completed_surveys < acs_num_req_surveys, cursor reset to 0)     *)
(* acs_study_next_freq never returns VALID.                                *)
(***************************************************************************)
C19_NoOddLoop ==
    /\ obs.restart # HOSTAPD_CHAN_VALID
    /\ obs.restart = HOSTAPD_CHAN_ACS
         => \E k \in CallsOf("remain_on_channel") :
              obs.calls[k].ok /\ obs.calls[k].idx = 0
    /\ obs.restart = HOSTAPD_CHAN_INVALID
         => \E k \in CallsOf("remain_on_channel") : ~obs.calls[k].ok

\* a second pass started
C19_Witness ==
    /\ obs.restart = HOSTAPD_CHAN_ACS
    /\ iface.acs_num_completed_surveys = 1
    /\ iface.chans_surveyed > 0

(***************************************************************************)
(* C20: at most one remain_on_channel request is outstanding at any time,  *)
(* and whenever the engine waits for the completion of a dwell the cursor  *)
(* is below the channel count and indexes a non-DISABLED channel whose     *)
(* frequency is that of the outstanding dwell.                             *)
(***************************************************************************)
\* the accepted dwells whose ROC-cancelled event is still to come
Outstanding == SelectSeq(drv.roc_q, LAMBDA e : e.kind = "roc_cancel")

C20_OneDwellOutstanding ==
    /\ Len(Outstanding) <= 1
    /\ (obs.active /\ ~drv.scan_pending /\ Outstanding # <<>>)
         => /\ iface.off_channel_freq_idx < NumChannels
            /\ ~iface.channels[iface.off_channel_freq_idx + 1].disabled
            /\ iface.channels[iface.off_channel_freq_idx + 1].freq
                 = Outstanding[1].freq

(***************************************************************************)
(* C13: for surveys with tx <= busy <= time, time > tx and nf >= nf_ref    *)
(* the factor of acs_survey_interference_factor does not decrease when     *)
(* channel_time_busy grows with the other inputs fixed, nor when nf grows  *)
(* with the other inputs fixed.                                            *)
(***************************************************************************)
C13_ScoreMonotone ==
    calc.op = "score" =>
      /\ (calc.a.nf = calc.b.nf
            /\ calc.a.channel_time_busy <= calc.b.channel_time_busy)
           => ~RLess(calc.fb, calc.fa)
      /\ (calc.a.channel_time_busy = calc.b.channel_time_busy
            /\ calc.a.nf <= calc.b.nf)
           => ~RLess(calc.fb, calc.fa)

(***************************************************************************)
(* C15: acs_cleanup is idempotent: from any interface state the second of  *)
(* two cleanups in a row leaves the interface exactly as the first left    *)
(* it.                                                                     *)
(***************************************************************************)
C15_CleanupIdempotent ==
    [][(Cleanup /\ calc.n = 1) => iface' = iface]_vars

\* two cleanups were applied to an interface that was not in the cleaned
\* state
C15_Witness ==
    /\ calc.op = "cleanup"
    /\ calc.n = 2
    /\ calc.dirty
    /\ iface.acs_num_req_surveys = MaxReqSurveys

====
